---------------------------- MODULE Spec2Model ----------------------------
(***************************************************************************)
(* A model of the flexible-stp repository: the SRP plasticity module       *)
(* (srplasticity/srp.py: efficacy kernels, DetSRP, ProbSRP) and the        *)
(* helper functions and fit/load orchestration of scripts/fig8.py, and the *)
(* delay sweep of Scripts/fig4.py.                                         *)
(*                                                                         *)
(* Conventions.  Python sequences are TLA+ sequences, so the Python index  *)
(* p is the TLA+ index p + 1.  Real numbers are integers: kernel entries,  *)
(* baselines and amplitudes are drawn from small integer sets, times (T,   *)
(* dt) are integer multiples of one tick, and the logistic sigmoid is the  *)
(* fixed-point value floor(10^4 * sigmoid(x)).  An optional scalar is a    *)
(* set with no element (None) or one element.                              *)
(***************************************************************************)
EXTENDS Integers, Sequences, FiniteSets, TLC

VARIABLES
    pc,        \* position of the running script / call sequence
    call,      \* srp.py: the arguments of the constructor and run calls
    model,     \* srp.py: the DetSRP / ProbSRP object under construction or use
    model2,    \* srp.py: a second ProbSRP object (same mean part as model)
    err,       \* srp.py: the exception the last constructor call raised
    out,       \* srp.py: what the last run / run_spiketrain call computed
    mom,       \* srp.py: run_spiketrain's locals mean and sigma, per model
    kcall,     \* srp.py: the arguments of a kernel constructor call
    kobj,      \* srp.py: the EfficiencyKernel object that call built
    kerr,      \* srp.py: the exception that call raised
    targets,        \* fig8.py: mse's argument targets
    estimate,       \* fig8.py: mse's argument estimate
    loss,           \* fig8.py: mse's return value
    target_dict,    \* fig8.py: the loaded response amplitudes, per protocol
    test_key,       \* fig8.py: the held-out key given to get_train_dict
    train_dict,     \* fig8.py: what get_train_dict returned
    files,          \* fig8.py: the parameter files under modelfit_dir
    start_files,    \* the parameter files as the running script found them
    fitting_tm,     \* fig8.py: the switch fitting_tm
    fitting_srp,    \* fig8.py: the switch fitting_srp
    tm_params,      \* fig8.py: the script variable tm_params
    tm_testparams,  \* fig8.py: the script variable tm_testparams
    srp_params,     \* fig8.py: the script variable srp_params
    srp_testparams, \* fig8.py: the script variable srp_testparams
    fitted,         \* the model families the running script has fitted and saved
    lastrun,        \* what the previous run of the script fitted
    tm,             \* fig8.py: the TsodyksMarkramModel given to get_model_estimates
    estimates,      \* fig8.py: get_model_estimates' dictionary estimates
    order,          \* fig8.py: the keys stimulus_dict.items() has still to yield
    calls,          \* the methods get_model_estimates has called on the model
    caller_train,   \* srp.py: the caller's spike-train array, passed to every call
    caller_train0,  \* that array as the caller created it
    returns,        \* srp.py: what each run / run_spiketrain call so far computed
    train,          \* fig4.py: the spike train of the sweep, as its spike indices
    testspike,      \* fig4.py: the loop variable testspike (a delay)
    res,            \* fig4.py: the readout array, kept as the train it was run on
    uctl,           \* fig4.py: the control efficacy
    burstmax,       \* fig4.py: the burst maximum
    ulate,          \* fig4.py: the test efficacy
    ratio,          \* fig4.py: the array ratio, as (ulate, uctl) per index
    ratio_burstmax  \* fig4.py: the array ratio_burstmax, as (ulate, burstmax)

varsSRP == <<call, model, model2, err, out, mom>>

varsKernel == <<kcall, kobj, kerr>>

varsMse == <<targets, estimate, loss>>

varsTrain == <<target_dict, test_key, train_dict>>

varsScript ==
    <<files, start_files, fitting_tm, fitting_srp, tm_params, tm_testparams,
      srp_params, srp_testparams, fitted, lastrun>>

varsEst == <<tm, estimates, order, calls>>

varsFig8 == <<varsMse, varsTrain, varsScript, varsEst>>

varsCalls == <<caller_train, caller_train0, returns>>

varsFig4 == <<train, testspike, res, uctl, burstmax, ulate, ratio, ratio_burstmax>>

vars == <<pc, varsSRP, varsKernel, varsFig8, varsCalls, varsFig4>>

-----------------------------------------------------------------------------
(* Bounds of the model *)

\* longest spike train
MaxLen == 3
\* longest kernel array handed to a model
MaxKer == 2

\* entries of kernel arrays handed to a model
KVals == {-1, 2}
\* baselines
Baselines == {-1, 1}
\* timesteps, in ticks
Dts == {1, 2}

-----------------------------------------------------------------------------
(* Generic helpers *)

Min(a, b) == IF a < b THEN a ELSE b

Max(a, b) == IF a > b THEN a ELSE b

\* all sequences over S of length lo..hi
SeqsOf(S, lo, hi) == UNION {[1..n -> S] : n \in lo..hi}

RECURSIVE SumFn(_, _)
\* f[1] + ... + f[n]
SumFn(f, n) == IF n = 0 THEN 0 ELSE f[n] + SumFn(f, n - 1)

\* number of entries of s among the first n that equal v
CountUpTo(s, v, n) == Cardinality({k \in 1..n : s[k] = v})

-----------------------------------------------------------------------------
(* scripts/fig8.py: the state of a script that has not started *)

\* a file that does not exist, and a script variable that is not assigned yet
Absent == [kind |-> "absent", value |-> <<>>]

\* no previous run
NoRun ==
    [fitted |-> {}, tm_params |-> Absent, tm_testparams |-> Absent,
     srp_params |-> Absent, srp_testparams |-> Absent]

MseIdle == targets = <<>> /\ estimate = <<>> /\ loss = [num |-> 0, den |-> 0]

TrainIdle == target_dict = <<>> /\ test_key = "" /\ train_dict = <<>>

ScriptIdle ==
    /\ files = <<>>
    /\ start_files = <<>>
    /\ fitting_tm = FALSE
    /\ fitting_srp = FALSE
    /\ tm_params = Absent
    /\ tm_testparams = Absent
    /\ srp_params = Absent
    /\ srp_testparams = Absent
    /\ fitted = {}
    /\ lastrun = NoRun

EstIdle ==
    /\ tm = [cls |-> "none", params |-> <<>>, carried |-> <<>>]
    /\ estimates = <<>>
    /\ order = <<>>
    /\ calls = <<>>

Fig8Idle == MseIdle /\ TrainIdle /\ ScriptIdle /\ EstIdle

\* no call sequence on a model under way
CallsIdle ==
    /\ caller_train = <<>>
    /\ caller_train0 = <<>>
    /\ returns = <<>>

\* Scripts/fig4.py not started
Fig4Idle ==
    /\ train = {}
    /\ testspike = 0
    /\ res = {}
    /\ uctl = 0
    /\ burstmax = 0
    /\ ulate = 0
    /\ ratio = <<>>
    /\ ratio_burstmax = <<>>

-----------------------------------------------------------------------------
(* srp.py: helper functions *)

\* floor(10^4 / (1 + exp(-x))) for x = -9 .. 9
SigmoidTable == <<1, 3, 9, 24, 66, 179, 474, 1192, 2689, 5000,
                  7310, 8807, 9525, 9820, 9933, 9975, 9990, 9996, 9998>>

\* _sigmoid(x), in fixed point
sigmoid(x) ==
    IF x < -9 THEN 0
    ELSE IF x > 9 THEN 9999
    ELSE SigmoidTable[x + 10]

\* the nlin argument of DetSRP: the default _sigmoid, or a callable of the
\* caller: x -> x^2 + 1 (strictly positive) or x -> max(x, 0) (not)
Nlins == {"sigmoid", "square1", "relu"}

ApplyNlin(nlin, x) ==
    CASE nlin = "sigmoid" -> sigmoid(x)
      [] nlin = "square1" -> x * x + 1
      [] nlin = "relu" -> Max(x, 0)

\* np.roll(x, 1): the last entry moves to the front
roll1(x) == [n \in 1..Len(x) |-> IF n = 1 THEN x[Len(x)] ELSE x[n - 1]]

\* scipy.signal.lfilter(b, 1, x): y[n] = sum_k b[k] * x[n - k], zero initial state
lfilter(b, x) ==
    [n \in 1..Len(x) |->
        SumFn([k \in 1..Min(n, Len(b)) |-> b[k] * x[n - k + 1]], Min(n, Len(b)))]

\* a plausible slip: the rolled train keeps the wrapped-around last entry
convolve_wraparound(spiketrain, kernel) == lfilter(kernel, roll1(spiketrain))

\* _convolve_spiketrain_with_kernel: shift by one timestep, clear index 0, filter
convolve_spiketrain_with_kernel(spiketrain, kernel) ==
    LET spktr == [roll1(spiketrain) EXCEPT ![1] = 0]
    IN  lfilter(kernel, spktr)

-----------------------------------------------------------------------------
(* srp.py: the efficacy kernels *)

\* longest kernel duration T given by the caller, in ticks
MaxT == 4
\* most components (Gaussians or exponentials) of a kernel
MaxComp == 2

\* amplitudes, means, standard deviations and time constants
ShapeVals == {1, 2}

\* largest entry of a non-empty sequence: np.max
MaxOf(x) == CHOOSE v \in {x[i] : i \in 1..Len(x)} : \A i \in 1..Len(x) : x[i] <= v

\* the value of an optional scalar that is not None
TheValue(opt) == CHOOSE v \in opt : TRUE

\* no kernel constructor call yet, and no kernel object
NoKCall ==
    [cls |-> "none", amps_given |-> FALSE, amps |-> <<>>, mus |-> <<>>,
     sigmas |-> <<>>, taus |-> <<>>, T |-> {}, dt |-> 0]

NoKernel == [cls |-> "none", T |-> 0, dt |-> 0, kernel |-> <<>>, components |-> <<>>]

KernelIdle == kcall = NoKCall /\ kobj = NoKernel /\ kerr = "none"

\* np.arange(0, T, dt): 0, dt, 2 dt, ... below T, that is ceil(T / dt) samples
arange(T, dt) == [j \in 1..((T + dt - 1) \div dt) |-> (j - 1) * dt]

\* EfficiencyKernel.__init__: T, dt and np.zeros(int(T / dt))
EfficiencyKernel_init(cls, T, dt) ==
    [cls |-> cls, T |-> T, dt |-> dt, kernel |-> [j \in 1..(T \div dt) |-> <<>>],
     components |-> <<>>]

\* one summand of a kernel sample, kept unevaluated: shape "gauss" is
\* a * exp(-(t - p)^2 / 2 / q^2) / sqrt(2 pi q^2), shape "exp" is a / p * exp(-t / p)
Term(shape, a, p, q, t) == [shape |-> shape, a |-> a, p |-> p, q |-> q, t |-> t]

\* GaussianKernel._construct_kernel: one row per Gaussian over the time grid;
\* the kernel is the sum of the rows (a sample is kept as the list of its summands)
Gaussian_construct_kernel(self, amps, mus, sigmas) ==
    LET t == arange(self.T, self.dt)
        L == Len(t)
        n == Len(amps)
        all == [i \in 1..n |->
                   [j \in 1..L |-> Term("gauss", amps[i], mus[i], sigmas[i], t[j])]]
    IN  [self EXCEPT !.components = all,
                     !.kernel = [j \in 1..L |-> [i \in 1..n |-> all[i][j]]]]

\* ExponentialKernel._construct_kernel: one row per exponential over the time grid
Exponential_construct_kernel(self, amps, taus) ==
    LET t == arange(self.T, self.dt)
        L == Len(t)
        n == Len(amps)
        all == [i \in 1..n |->
                   [j \in 1..L |-> Term("exp", amps[i], taus[i], 0, t[j])]]
    IN  [self EXCEPT !.components = all,
                     !.kernel = [j \in 1..L |-> [i \in 1..n |-> all[i][j]]]]

\* GaussianKernel.__init__: the size assert, the default T, the construction
GaussianKernel_init(amps, mus, sigmas, T, dt) ==
    IF ~(Len(amps) = Len(mus) /\ Len(mus) = Len(sigmas))
    THEN [err |-> "AssertionError", obj |-> NoKernel]
    ELSE LET T1 == IF T = {} THEN MaxOf(mus) + 5 * MaxOf(sigmas) ELSE TheValue(T)
             self == EfficiencyKernel_init("GaussianKernel", T1, dt)
         IN  [err |-> "none", obj |-> Gaussian_construct_kernel(self, amps, mus, sigmas)]

\* a plausible slip: the size assert is skipped, the shorter array decides
ExponentialKernel_init_unchecked(taus, amps_given, amps, T, dt) ==
    LET n == IF amps_given THEN Min(Len(taus), Len(amps)) ELSE Len(taus)
        amps1 == IF amps_given THEN SubSeq(amps, 1, n) ELSE [i \in 1..n |-> 1]
        T1 == IF T = {} THEN 10 * MaxOf(taus) ELSE TheValue(T)
        self == EfficiencyKernel_init("ExponentialKernel", T1, dt)
    IN  [err |-> "none",
         obj |-> Exponential_construct_kernel(self, amps1, SubSeq(taus, 1, n))]

\* ExponentialKernel.__init__: amplitudes default to 1 per time constant, else
\* the size assert; the default T; the construction
ExponentialKernel_init(taus, amps_given, amps, T, dt) ==
    IF amps_given /\ Len(taus) # Len(amps)
    THEN [err |-> "AssertionError", obj |-> NoKernel]
    ELSE LET amps1 == IF amps_given THEN amps ELSE [i \in 1..Len(taus) |-> 1]
             T1 == IF T = {} THEN 10 * MaxOf(taus) ELSE TheValue(T)
             self == EfficiencyKernel_init("ExponentialKernel", T1, dt)
         IN  [err |-> "none", obj |-> Exponential_construct_kernel(self, amps1, taus)]

-----------------------------------------------------------------------------
(* srp.py: the SRP models *)

\* what a kernel argument can be: a raw array, or an EfficiencyKernel object
\* (fields dt and kernel); dt is 0 where there is none
RawKernel(k) == [cls |-> "ndarray", dt |-> 0, kernel |-> k]

KernelObject(d, k) == [cls |-> "EfficiencyKernel", dt |-> d, kernel |-> k]

\* the argument value None
NoneArg == [cls |-> "None", dt |-> 0, kernel |-> <<>>]

\* no object: the variable before construction, or after a failed one
NoModel ==
    [cls |-> "none", dt |-> 0, nlin |-> "none", mu_baseline |-> 0,
     mu_kernel |-> <<>>, sigma_kernel |-> <<>>, sigma_baseline |-> {}]

\* a plausible slip: the isinstance branch stores the array without the check
DetSRP_init_unchecked(kernel, baseline, nlin, dt) ==
    [err |-> "none",
     model |-> [cls |-> "DetSRP", dt |-> dt, nlin |-> nlin,
                mu_baseline |-> baseline, mu_kernel |-> kernel.kernel,
                sigma_kernel |-> <<>>, sigma_baseline |-> {}]]

\* DetSRP.__init__: the assert on an EfficiencyKernel's dt, then the array
DetSRP_init(kernel, baseline, nlin, dt) ==
    IF kernel.cls = "EfficiencyKernel" /\ dt # kernel.dt
    THEN [err |-> "AssertionError", model |-> NoModel]
    ELSE [err |-> "none",
          model |-> [cls |-> "DetSRP", dt |-> dt, nlin |-> nlin,
                     mu_baseline |-> baseline, mu_kernel |-> kernel.kernel,
                     sigma_kernel |-> <<>>, sigma_baseline |-> {}]]

\* ProbSRP.__init__: DetSRP.__init__, then the variance kernel and baseline
ProbSRP_init(mu_kernel, mu_baseline, sigma_kernel, sigma_baseline, nlin, dt) ==
    LET base == DetSRP_init(mu_kernel, mu_baseline, nlin, dt)
        m == base.model
    IN  IF base.err # "none" THEN base
        ELSE IF sigma_kernel.cls = "None"
        THEN [err |-> "none",
              model |-> [m EXCEPT !.cls = "ProbSRP",
                                  !.sigma_kernel = m.mu_kernel,
                                  !.sigma_baseline = {m.mu_baseline}]]
        ELSE IF sigma_kernel.cls = "EfficiencyKernel" /\ m.dt # sigma_kernel.dt
        THEN [err |-> "AssertionError", model |-> NoModel]
        ELSE [err |-> "none",
              model |-> [m EXCEPT !.cls = "ProbSRP",
                                  !.sigma_kernel = sigma_kernel.kernel,
                                  !.sigma_baseline = sigma_baseline]]

\* no result yet
NoOut ==
    [filtered_spiketrain |-> <<>>, nonlinear_readout |-> <<>>,
     efficacytrain |-> <<>>, efficacies |-> <<>>]

\* np.where(spiketrain == 1)[0]: the indices of the spikes, increasing
RECURSIVE where1(_, _)
where1(spiketrain, n) ==
    IF n = 0 THEN <<>>
    ELSE IF spiketrain[n] = 1 THEN Append(where1(spiketrain, n - 1), n)
    ELSE where1(spiketrain, n - 1)

\* x[idx]: numpy indexing with an index array
take(x, idx) == [j \in 1..Len(idx) |-> x[idx[j]]]

\* a plausible slip: the readout is gated by the shifted train, not the original
run_shifted(m, spiketrain) ==
    LET conv == convolve_spiketrain_with_kernel(spiketrain, m.mu_kernel)
        filtered == [n \in 1..Len(spiketrain) |-> m.mu_baseline + conv[n]]
        readout == [n \in 1..Len(spiketrain) |-> ApplyNlin(m.nlin, filtered[n])]
        spktr == [roll1(spiketrain) EXCEPT ![1] = 0]
        etrain == [n \in 1..Len(spiketrain) |-> readout[n] * spktr[n]]
    IN  [filtered_spiketrain |-> filtered, nonlinear_readout |-> readout,
         efficacytrain |-> etrain,
         efficacies |-> take(etrain, where1(spktr, Len(spktr)))]

\* a plausible slip: the readout is returned without the spike-train gate
run_ungated(m, spiketrain) ==
    LET conv == convolve_spiketrain_with_kernel(spiketrain, m.mu_kernel)
        filtered == [n \in 1..Len(spiketrain) |-> m.mu_baseline + conv[n]]
        readout == [n \in 1..Len(spiketrain) |-> ApplyNlin(m.nlin, filtered[n])]
    IN  [filtered_spiketrain |-> filtered, nonlinear_readout |-> readout,
         efficacytrain |-> readout,
         efficacies |-> take(readout, where1(spiketrain, Len(spiketrain)))]

\* DetSRP.run: the four quantities it computes (the return_all mapping)
run(m, spiketrain) ==
    LET conv == convolve_spiketrain_with_kernel(spiketrain, m.mu_kernel)
        filtered == [n \in 1..Len(spiketrain) |-> m.mu_baseline + conv[n]]
        readout == [n \in 1..Len(spiketrain) |-> ApplyNlin(m.nlin, filtered[n])]
        etrain == [n \in 1..Len(spiketrain) |-> readout[n] * spiketrain[n]]
    IN  [filtered_spiketrain |-> filtered, nonlinear_readout |-> readout,
         efficacytrain |-> etrain,
         efficacies |-> take(etrain, where1(spiketrain, Len(spiketrain)))]

\* a plausible slip (or the intended code): sigma is read out of the variance
\* kernel and the variance baseline
spiketrain_moments_sigma(m, spiketrain) ==
    LET L == Len(spiketrain)
        convmu == convolve_spiketrain_with_kernel(spiketrain, m.mu_kernel)
        convsg == convolve_spiketrain_with_kernel(spiketrain, m.sigma_kernel)
        sb == IF m.sigma_baseline = {} THEN 0 ELSE TheValue(m.sigma_baseline)
    IN  [mean |-> [n \in 1..L |->
                      ApplyNlin(m.nlin, m.mu_baseline + convmu[n]) * spiketrain[n]],
         sigma |-> [n \in 1..L |->
                      ApplyNlin(m.nlin, sb + convsg[n]) * spiketrain[n]]]

\* ProbSRP.run_spiketrain: the locals mean and sigma (arrays over the train)
spiketrain_moments(m, spiketrain) ==
    LET L == Len(spiketrain)
        conv1 == convolve_spiketrain_with_kernel(spiketrain, m.mu_kernel)
        conv2 == convolve_spiketrain_with_kernel(spiketrain, m.mu_kernel)
    IN  [mean |-> [n \in 1..L |->
                      ApplyNlin(m.nlin, m.mu_baseline + conv1[n]) * spiketrain[n]],
         sigma |-> [n \in 1..L |->
                      ApplyNlin(m.nlin, m.mu_baseline + conv2[n]) * spiketrain[n]]]

\* values a draw from the gamma distribution can take
GammaDraws == {1, 2}

\* ProbSRP._sample: the matrices np.random.gamma can return, of shape
\* [ntrials, len(mean)]; shape = mean^2 / sigma^2 and scale = sigma^2 / mean
\* only weight the draws
sample(mean, sigma, ntrials) == [1..ntrials -> [1..Len(mean) -> GammaDraws]]

\* a plausible slip: the samples fill the leading columns, efficacytrains[:, :k]
scatter_leading(efficacies, spiketimes, ntrials, L) ==
    [r \in 1..ntrials |->
        [n \in 1..L |-> IF n <= Len(spiketimes) THEN efficacies[r][n] ELSE 0]]

\* efficacytrains[:, spiketimes] = efficacies, on np.zeros((ntrials, L))
scatter(efficacies, spiketimes, ntrials, L) ==
    [r \in 1..ntrials |->
        [n \in 1..L |->
            IF \E j \in 1..Len(spiketimes) : spiketimes[j] = n
            THEN efficacies[r][CHOOSE j \in 1..Len(spiketimes) : spiketimes[j] = n]
            ELSE 0]]

-----------------------------------------------------------------------------
(* Construction and DetSRP.run: the specification SpecSRP *)

\* kernel arguments of the mean kernel
KernelArrays == SeqsOf(KVals, 1, MaxKer)

KernelArgs ==
    {RawKernel(k) : k \in KernelArrays}
        \cup {KernelObject(d, k) : d \in Dts, k \in KernelArrays}

\* variance kernel arguments other than None, and variance baselines
SigmaKernelArgs == {RawKernel(<<2>>)} \cup {KernelObject(d, <<2>>) : d \in Dts}

SigmaBaselines == {{}, {1}}

\* 0/1 spike trains
SpikeTrains == SeqsOf({0, 1}, 1, MaxLen)

\* no constructor call yet
NoCall ==
    [cls |-> "none", kernel |-> NoneArg, baseline |-> 0, nlin |-> "none", dt |-> 0,
     sigma_kernel |-> NoneArg, sigma_baseline |-> {},
     sigma_kernel2 |-> NoneArg, sigma_baseline2 |-> {},
     spiketrain |-> <<>>, ntrials |-> 0]

NoMom == [w \in 1..2 |-> [mean |-> <<>>, sigma |-> <<>>]]


\* the calls a script can make: DetSRP(kernel, baseline, nlin, dt) or
\* ProbSRP(mu_kernel, mu_baseline, sigma_kernel, sigma_baseline, nlin=, dt=)
InitSRP ==
    /\ pc = "new"
    /\ \E k \in KernelArgs, b \in Baselines, f \in Nlins, d \in Dts :
          \/ call = [NoCall EXCEPT !.cls = "DetSRP", !.kernel = k, !.baseline = b,
                                    !.nlin = f, !.dt = d]
          \/ \E sk \in {NoneArg} \cup SigmaKernelArgs, sb \in SigmaBaselines :
                call = [NoCall EXCEPT !.cls = "ProbSRP", !.kernel = k,
                                      !.baseline = b, !.nlin = f, !.dt = d,
                                      !.sigma_kernel = sk, !.sigma_baseline = sb]
    /\ model = NoModel
    /\ model2 = NoModel
    /\ err = "none"
    /\ out = NoOut
    /\ mom = NoMom
    /\ KernelIdle
    /\ Fig8Idle
    /\ CallsIdle
    /\ Fig4Idle

\* DetSRP(kernel, baseline, nlin, dt)
ConstructDetSRP ==
    /\ pc = "new"
    /\ call.cls = "DetSRP"
    /\ LET r == DetSRP_init(call.kernel, call.baseline, call.nlin, call.dt)
       IN  /\ model' = r.model
           /\ err' = r.err
           /\ pc' = IF r.err = "none" THEN "constructed" ELSE "failed"
    /\ UNCHANGED <<call, model2, out, mom, varsKernel, varsFig8, varsCalls, varsFig4>>

\* ProbSRP(mu_kernel, mu_baseline, sigma_kernel, sigma_baseline, nlin=, dt=)
ConstructProbSRP ==
    /\ pc = "new"
    /\ call.cls = "ProbSRP"
    /\ LET r == ProbSRP_init(call.kernel, call.baseline, call.sigma_kernel,
                             call.sigma_baseline, call.nlin, call.dt)
       IN  /\ model' = r.model
           /\ err' = r.err
           /\ pc' = IF r.err = "none" THEN "constructed" ELSE "failed"
    /\ UNCHANGED <<call, model2, out, mom, varsKernel, varsFig8, varsCalls, varsFig4>>

\* model.run(spiketrain): DetSRP.run, which ProbSRP inherits
Run ==
    /\ pc = "constructed"
    /\ \E s \in SpikeTrains :
          /\ call' = [call EXCEPT !.spiketrain = s]
          /\ out' = run(model, s)
    /\ pc' = "ran"
    /\ UNCHANGED <<model, model2, err, mom, varsKernel, varsFig8, varsCalls, varsFig4>>

NextSRP == ConstructDetSRP \/ ConstructProbSRP \/ Run

SpecSRP == InitSRP /\ [][NextSRP]_vars

-----------------------------------------------------------------------------
(* Claims checked under SpecSRP *)

\* the train s has exactly one spike, at index i
OnlySpikeAt(s, i) == \A n \in 1..Len(s) : s[n] = (IF n = i THEN 1 ELSE 0)

\* C1: for a spike train whose only spike is at index i, the filtered trace of
\* DetSRP.run is the baseline at every index n <= i, baseline + kernel[n-i-1]
\* at every index n > i with n-i-1 < len(kernel), and the baseline elsewhere;
\* a spike at the last index contributes nowhere.
C1_SingleSpikeCausality ==
    pc = "ran" =>
        \A i \in 1..Len(call.spiketrain) :
            OnlySpikeAt(call.spiketrain, i) =>
                \A n \in 1..Len(call.spiketrain) :
                    out.filtered_spiketrain[n] =
                        model.mu_baseline
                            + (IF n > i /\ n - i <= Len(model.mu_kernel)
                               THEN model.mu_kernel[n - i] ELSE 0)

\* C1 witness: a single spike followed by two samples, under a two-entry
\* kernel: both kernel entries show up, one and two steps after the spike
C1_Witness ==
    /\ pc = "ran"
    /\ Len(model.mu_kernel) = 2
    /\ \E i \in 1..Len(call.spiketrain) :
          /\ OnlySpikeAt(call.spiketrain, i)
          /\ i + 2 <= Len(call.spiketrain)
          /\ out.filtered_spiketrain[i] = model.mu_baseline
          /\ out.filtered_spiketrain[i + 1] = model.mu_baseline + model.mu_kernel[1]
          /\ out.filtered_spiketrain[i + 2] = model.mu_baseline + model.mu_kernel[2]

\* C3: for a 0/1 spike train and a nonlinearity whose values are strictly
\* positive, the efficacy train of DetSRP.run is nonzero at index n exactly
\* when the original spike train has a spike at n, and efficacies has one
\* entry per spike: the nonlinear readout at the spike indices, in increasing
\* index order.
C3_EfficacyAtSpikesOnly ==
    (pc = "ran" /\ \A n \in 1..Len(call.spiketrain) : out.nonlinear_readout[n] > 0) =>
        /\ \A n \in 1..Len(call.spiketrain) :
              (out.efficacytrain[n] # 0) <=> (call.spiketrain[n] = 1)
        /\ Len(out.efficacies) =
              CountUpTo(call.spiketrain, 1, Len(call.spiketrain))
        /\ \A n \in 1..Len(call.spiketrain) :
              call.spiketrain[n] = 1 =>
                  out.efficacies[CountUpTo(call.spiketrain, 1, n)] =
                      out.nonlinear_readout[n]

\* C3 witness: a train with a gap between two spikes, whose two efficacies
\* differ (the second spike sees the first one's kernel)
C3_Witness ==
    /\ pc = "ran"
    /\ \A n \in 1..Len(call.spiketrain) : out.nonlinear_readout[n] > 0
    /\ call.spiketrain = <<1, 0, 1>>
    /\ Len(out.efficacies) = 2
    /\ out.efficacies[1] # out.efficacies[2]
    /\ out.efficacytrain[2] = 0

\* an EfficiencyKernel argument whose dt differs from the model's
DtMismatch(k) == k.cls = "EfficiencyKernel" /\ k.dt # call.dt

\* C9: constructing DetSRP or ProbSRP with an EfficiencyKernel object (mean
\* kernel, or ProbSRP's variance kernel) whose dt differs from the model's
\* fails; otherwise construction succeeds and the model stores the object's
\* kernel array, or the raw sequence, which is accepted with no dt check.
C9_TimestepMatch ==
    pc \in {"constructed", "failed"} =>
        IF DtMismatch(call.kernel)
              \/ (call.cls = "ProbSRP" /\ DtMismatch(call.sigma_kernel))
        THEN pc = "failed" /\ err = "AssertionError" /\ model = NoModel
        ELSE /\ pc = "constructed"
             /\ err = "none"
             /\ model.cls = call.cls
             /\ model.mu_kernel = call.kernel.kernel
             /\ (call.cls = "ProbSRP" /\ call.sigma_kernel.cls # "None") =>
                    model.sigma_kernel = call.sigma_kernel.kernel

\* C9 witness: a ProbSRP call whose mean kernel object matches the model's dt
\* and whose variance kernel object does not: the construction failed
C9_Witness ==
    /\ pc = "failed"
    /\ call.cls = "ProbSRP"
    /\ call.kernel.cls = "EfficiencyKernel"
    /\ call.kernel.dt = call.dt
    /\ call.sigma_kernel.cls = "EfficiencyKernel"
    /\ call.sigma_kernel.dt # call.dt
    /\ err = "AssertionError"

\* the train s has no spike
AllZero(s) == \A n \in 1..Len(s) : s[n] = 0

\* C12: DetSRP.run on an all-zero spike train of any length returns an
\* efficacy train that is zero at every index and an empty efficacies
\* sequence, for any kernel and any baseline.
C12_SilentTrain ==
    (pc = "ran" /\ AllZero(call.spiketrain)) =>
        /\ Len(out.efficacytrain) = Len(call.spiketrain)
        /\ \A n \in 1..Len(call.spiketrain) : out.efficacytrain[n] = 0
        /\ out.efficacies = <<>>

\* C12 witness: a silent train of full length under a two-entry kernel and a
\* nonzero baseline: the readout is nonzero everywhere, the efficacy train zero
C12_Witness ==
    /\ pc = "ran"
    /\ Len(call.spiketrain) = MaxLen
    /\ AllZero(call.spiketrain)
    /\ Len(model.mu_kernel) = 2
    /\ \A n \in 1..MaxLen : out.nonlinear_readout[n] # 0
    /\ \A n \in 1..MaxLen : out.efficacytrain[n] = 0
    /\ out.efficacies = <<>>

-----------------------------------------------------------------------------
(* Kernel construction: the specification SpecKernel *)

SRPIdle ==
    /\ call = NoCall
    /\ model = NoModel
    /\ model2 = NoModel
    /\ err = "none"
    /\ out = NoOut
    /\ mom = NoMom

\* component parameter arrays (a scalar argument is the array of length 1)
ShapeArrays == SeqsOf(ShapeVals, 1, MaxComp)

\* the T argument: None, or a duration
Durations == {{}} \cup {{t} : t \in 1..MaxT}

\* the calls a script can make: GaussianKernel(amps, mus, sigmas, T, dt) or
\* ExponentialKernel(taus, amps, T, dt), amps possibly omitted
InitKernel ==
    /\ pc = "knew"
    /\ \E T \in Durations, d \in Dts :
          \/ \E a \in ShapeArrays, m \in ShapeArrays, sg \in ShapeArrays :
                kcall = [NoKCall EXCEPT !.cls = "GaussianKernel", !.amps_given = TRUE,
                                        !.amps = a, !.mus = m, !.sigmas = sg,
                                        !.T = T, !.dt = d]
          \/ \E tau \in ShapeArrays, a \in ShapeArrays :
                kcall = [NoKCall EXCEPT !.cls = "ExponentialKernel",
                                        !.amps_given = TRUE, !.amps = a,
                                        !.taus = tau, !.T = T, !.dt = d]
          \/ \E tau \in ShapeArrays :
                kcall = [NoKCall EXCEPT !.cls = "ExponentialKernel", !.taus = tau,
                                        !.T = T, !.dt = d]
    /\ kobj = NoKernel
    /\ kerr = "none"
    /\ SRPIdle
    /\ Fig8Idle
    /\ CallsIdle
    /\ Fig4Idle

\* GaussianKernel(amps, mus, sigmas, T, dt)
ConstructGaussianKernel ==
    /\ pc = "knew"
    /\ kcall.cls = "GaussianKernel"
    /\ LET r == GaussianKernel_init(kcall.amps, kcall.mus, kcall.sigmas,
                                    kcall.T, kcall.dt)
       IN  /\ kobj' = r.obj
           /\ kerr' = r.err
           /\ pc' = IF r.err = "none" THEN "kbuilt" ELSE "kfailed"
    /\ UNCHANGED <<kcall, varsSRP, varsFig8, varsCalls, varsFig4>>

\* ExponentialKernel(taus, amps, T, dt)
ConstructExponentialKernel ==
    /\ pc = "knew"
    /\ kcall.cls = "ExponentialKernel"
    /\ LET r == ExponentialKernel_init(kcall.taus, kcall.amps_given, kcall.amps,
                                       kcall.T, kcall.dt)
       IN  /\ kobj' = r.obj
           /\ kerr' = r.err
           /\ pc' = IF r.err = "none" THEN "kbuilt" ELSE "kfailed"
    /\ UNCHANGED <<kcall, varsSRP, varsFig8, varsCalls, varsFig4>>

NextKernel == ConstructGaussianKernel \/ ConstructExponentialKernel

SpecKernel == InitKernel /\ [][NextKernel]_vars

-----------------------------------------------------------------------------
(* Claims checked under SpecKernel *)

\* C2: for every T > 0 and dt > 0, including pairs where T / dt is not an
\* integer, GaussianKernel and ExponentialKernel each produce a kernel array
\* of length exactly floor(T / dt).
C2_KernelLengthIsFloor ==
    pc = "kbuilt" => Len(kobj.kernel) = kobj.T \div kobj.dt

\* C10: GaussianKernel construction fails whenever amps, mus and sigmas do not
\* all have the same number of elements; ExponentialKernel construction fails
\* whenever amps is supplied with another number of elements than taus; with
\* amps omitted ExponentialKernel succeeds, with one component per time
\* constant, each of amplitude 1.
C10_ParameterSizes ==
    pc \in {"kbuilt", "kfailed"} =>
        /\ (kcall.cls = "GaussianKernel"
              /\ ~(Len(kcall.amps) = Len(kcall.mus)
                     /\ Len(kcall.amps) = Len(kcall.sigmas)
                     /\ Len(kcall.mus) = Len(kcall.sigmas)))
              => (pc = "kfailed" /\ kerr = "AssertionError" /\ kobj = NoKernel)
        /\ (kcall.cls = "ExponentialKernel" /\ kcall.amps_given
              /\ Len(kcall.amps) # Len(kcall.taus))
              => (pc = "kfailed" /\ kerr = "AssertionError" /\ kobj = NoKernel)
        /\ (kcall.cls = "ExponentialKernel" /\ ~kcall.amps_given)
              => /\ pc = "kbuilt"
                 /\ Len(kobj.components) = Len(kcall.taus)
                 /\ \A i \in 1..Len(kobj.components) :
                       \A j \in 1..Len(kobj.components[i]) :
                           /\ kobj.components[i][j].a = 1
                           /\ kobj.components[i][j].p = kcall.taus[i]
                           /\ kobj.kernel[j][i] = kobj.components[i][j]

\* C10 witness: an ExponentialKernel call with supplied amps one shorter than
\* taus, which failed
C10_Witness ==
    /\ pc = "kfailed"
    /\ kcall.cls = "ExponentialKernel"
    /\ kcall.amps_given
    /\ Len(kcall.amps) + 1 = Len(kcall.taus)
    /\ kerr = "AssertionError"

-----------------------------------------------------------------------------
(* ProbSRP.run_spiketrain on two models: the specification SpecProb *)

\* longest spike train given to run_spiketrain
MaxLenP == 2

ProbSpikeTrains == SeqsOf({0, 1}, 1, MaxLenP)

\* the ntrials argument (default 1)
TrialCounts == {1, 2}

\* nonlinearities with strictly positive values (valid gamma parameters)
PositiveNlins == {"sigmoid", "square1"}

\* mean kernel arrays
ProbKernelArrays == {<<2>>, <<-1, 2>>, <<2, -1>>}

\* (sigma_kernel, sigma_baseline) argument pairs
SigmaArgPairs ==
    {<<NoneArg, {}>>, <<RawKernel(<<2>>), {1}>>, <<RawKernel(<<-1, 2>>), {-1}>>,
     <<KernelObject(1, <<-1>>), {}>>}

\* (sigma_kernel, sigma_baseline) argument pairs of the second call
SigmaArgPairs2 == {<<NoneArg, {}>>, <<RawKernel(<<2>>), {1}>>}

\* two ProbSRP calls that agree on mean kernel, mean baseline, nlin and dt
InitProb ==
    /\ pc = "new"
    /\ \E k \in ProbKernelArrays, b \in Baselines, f \in PositiveNlins, d \in Dts,
          s1 \in SigmaArgPairs, s2 \in SigmaArgPairs2 :
          call = [NoCall EXCEPT !.cls = "ProbSRP", !.kernel = RawKernel(k),
                                !.baseline = b, !.nlin = f, !.dt = d,
                                !.sigma_kernel = s1[1], !.sigma_baseline = s1[2],
                                !.sigma_kernel2 = s2[1], !.sigma_baseline2 = s2[2]]
    /\ model = NoModel
    /\ model2 = NoModel
    /\ err = "none"
    /\ out = NoOut
    /\ mom = NoMom
    /\ KernelIdle
    /\ Fig8Idle
    /\ CallsIdle
    /\ Fig4Idle

\* the second ProbSRP(...) call: same mean part, its own variance part
ConstructProbSRP2 ==
    /\ pc = "constructed"
    /\ call.cls = "ProbSRP"
    /\ model2 = NoModel
    /\ call.spiketrain = <<>>
    /\ LET r == ProbSRP_init(call.kernel, call.baseline, call.sigma_kernel2,
                             call.sigma_baseline2, call.nlin, call.dt)
       IN  /\ model2' = r.model
           /\ err' = r.err
           /\ pc' = IF r.err = "none" THEN "paired" ELSE "failed"
    /\ UNCHANGED <<call, model, out, mom, varsKernel, varsFig8, varsCalls, varsFig4>>

\* the ProbSRP object a run addresses
ModelNo(w) == IF w = 1 THEN model ELSE model2

\* ModelNo(w).run_spiketrain(spiketrain, ntrials): the first call chooses the
\* train and ntrials, the second call repeats them on the other model
RunSpiketrain(w) ==
    /\ pc = (IF w = 1 THEN "paired" ELSE "ran1")
    /\ \E s \in (IF w = 1 THEN ProbSpikeTrains ELSE {call.spiketrain}),
          nt \in (IF w = 1 THEN TrialCounts ELSE {call.ntrials}) :
          LET spiketimes == where1(s, Len(s))
              ms == spiketrain_moments(ModelNo(w), s)
              mean == take(ms.mean, spiketimes)
              sigma == take(ms.sigma, spiketimes)
          IN  /\ call' = [call EXCEPT !.spiketrain = s, !.ntrials = nt]
              /\ mom' = [mom EXCEPT ![w] = [mean |-> mean, sigma |-> sigma]]
              /\ \E efficacies \in sample(mean, sigma, nt) :
                    out' = [efficacies |-> efficacies,
                            efficacytrains |->
                                scatter(efficacies, spiketimes, nt, Len(s))]
    /\ pc' = (IF w = 1 THEN "ran1" ELSE "ran2")
    /\ UNCHANGED <<model, model2, err, varsKernel, varsFig8, varsCalls, varsFig4>>

NextProb ==
    \/ ConstructProbSRP
    \/ ConstructProbSRP2
    \/ \E w \in 1..2 : RunSpiketrain(w)

SpecProb == InitProb /\ [][NextProb]_vars

-----------------------------------------------------------------------------
(* Claims checked under SpecProb *)

\* C8: ProbSRP.run_spiketrain ignores the stored variance kernel and variance
\* baseline: two models that agree on mean kernel, mean baseline, nlin and dt
\* compute identical mean and sigma values at every spike of the same train,
\* whatever their sigma_kernel and sigma_baseline, and within one model the
\* sigma value equals the mean value at every spike.
C8_VarianceKernelIgnored ==
    /\ pc \in {"ran1", "ran2"} => mom[1].sigma = mom[1].mean
    /\ pc = "ran2" =>
          /\ model.mu_kernel = model2.mu_kernel
          /\ model.mu_baseline = model2.mu_baseline
          /\ mom[2].sigma = mom[2].mean
          /\ mom[1] = mom[2]
          /\ Len(mom[1].mean) = CountUpTo(call.spiketrain, 1, Len(call.spiketrain))

\* C8 witness: both models ran on a train with two spikes; their variance
\* kernels and baselines differ from each other and from the mean ones
C8_Witness ==
    /\ pc = "ran2"
    /\ call.spiketrain = <<1, 1>>
    /\ model.sigma_kernel # model2.sigma_kernel
    /\ model.sigma_baseline # model2.sigma_baseline
    /\ model.sigma_kernel # model.mu_kernel
    /\ model.sigma_baseline # {model.mu_baseline}
    /\ mom[1].mean[1] # mom[1].mean[2]
    /\ mom[1] = mom[2]

\* C11: for a 0/1 spike train of length L with k spikes and ntrials >= 1,
\* ProbSRP.run_spiketrain returns an efficacies matrix of shape [ntrials, k]
\* and an efficacy-trains matrix of shape [ntrials, L] that is zero at every
\* non-spike index and, in each trial row, holds at the j-th spike index the
\* j-th sampled efficacy of that row.
C11_SampledEfficacyShapes ==
    pc \in {"ran1", "ran2"} =>
        LET s == call.spiketrain
            k == CountUpTo(s, 1, Len(s))
        IN  /\ call.ntrials >= 1
            /\ DOMAIN out.efficacies = 1..call.ntrials
            /\ DOMAIN out.efficacytrains = 1..call.ntrials
            /\ \A r \in 1..call.ntrials :
                  /\ DOMAIN out.efficacies[r] = 1..k
                  /\ DOMAIN out.efficacytrains[r] = 1..Len(s)
                  /\ \A n \in 1..Len(s) :
                        IF s[n] = 1
                        THEN out.efficacytrains[r][n] =
                                out.efficacies[r][CountUpTo(s, 1, n)]
                        ELSE out.efficacytrains[r][n] = 0

\* C11 witness: two trials on a train whose only spike is the second sample;
\* the two rows drew different efficacies, each found at the spike index
C11_Witness ==
    /\ pc = "ran1"
    /\ call.spiketrain = <<0, 1>>
    /\ call.ntrials = 2
    /\ out.efficacies = <<<<1>>, <<2>>>>
    /\ out.efficacytrains = <<<<0, 1>>, <<0, 2>>>>

-----------------------------------------------------------------------------
(* Repeated calls on one model with one array: the specification SpecCalls *)

\* most calls made on the model
MaxCalls == 3

\* a plausible slip: spktr aliases the argument, so spktr[0] = 0 reaches it
array_after_convolve_inplace(spiketrain) == [spiketrain EXCEPT ![1] = 0]

\* the caller's array after _convolve_spiketrain_with_kernel(spiketrain, kernel):
\* np.roll returns a new array, and spktr[0] = 0 writes to that one
array_after_convolve(spiketrain) == spiketrain

\* a plausible slip: the compact mode returns the readout, not the efficacy train
DetSRP_run_mixed(m, spiketrain, return_all) ==
    LET all == run(m, spiketrain)
    IN  [ret |-> IF return_all THEN all
                 ELSE <<all.nonlinear_readout, all.efficacies>>,
         locals |-> all,
         spiketrain |-> array_after_convolve(spiketrain),
         self |-> m]

\* DetSRP.run(spiketrain, return_all): the value returned (the mapping, or the
\* pair), the quantities computed, the caller's array and the model afterwards
DetSRP_run(m, spiketrain, return_all) ==
    LET all == run(m, spiketrain)
    IN  [ret |-> IF return_all THEN all
                 ELSE <<all.efficacytrain, all.efficacies>>,
         locals |-> all,
         spiketrain |-> array_after_convolve(spiketrain),
         self |-> m]

\* ProbSRP.run_spiketrain(spiketrain, ntrials) up to the sampling: spiketimes,
\* the arguments of _sample, the caller's array and the model afterwards
ProbSRP_run_spiketrain(m, spiketrain) ==
    LET spiketimes == where1(spiketrain, Len(spiketrain))
        ms == spiketrain_moments(m, spiketrain)
    IN  [spiketimes |-> spiketimes,
         locals |-> [mean |-> take(ms.mean, spiketimes),
                     sigma |-> take(ms.sigma, spiketimes)],
         spiketrain |-> array_after_convolve(array_after_convolve(spiketrain)),
         self |-> m]

\* a script builds one model and one spike-train array
InitCalls ==
    /\ pc = "new"
    /\ \E k \in ProbKernelArrays, b \in Baselines :
          \/ \E f \in Nlins :
                call = [NoCall EXCEPT !.cls = "DetSRP", !.kernel = RawKernel(k),
                                      !.baseline = b, !.nlin = f, !.dt = 1]
          \/ \E f \in PositiveNlins, sg \in SigmaArgPairs2 :
                call = [NoCall EXCEPT !.cls = "ProbSRP", !.kernel = RawKernel(k),
                                      !.baseline = b, !.nlin = f, !.dt = 1,
                                      !.sigma_kernel = sg[1],
                                      !.sigma_baseline = sg[2]]
    /\ caller_train \in ProbSpikeTrains
    /\ caller_train0 = caller_train
    /\ returns = <<>>
    /\ model = NoModel
    /\ model2 = NoModel
    /\ err = "none"
    /\ out = NoOut
    /\ mom = NoMom
    /\ KernelIdle
    /\ Fig8Idle
    /\ Fig4Idle

\* model.run(caller_train, return_all), on a DetSRP or a ProbSRP object
CallRun ==
    /\ pc \in {"constructed", "called"}
    /\ Len(returns) < MaxCalls
    /\ \E return_all \in BOOLEAN :
          LET r == DetSRP_run(model, caller_train, return_all)
          IN  /\ returns' = Append(returns, [method |-> "run",
                                             return_all |-> return_all,
                                             locals |-> r.locals, ret |-> r.ret])
              /\ caller_train' = r.spiketrain
              /\ model' = r.self
    /\ pc' = "called"
    /\ UNCHANGED <<call, model2, err, out, mom, caller_train0, varsKernel, varsFig8,
                   varsFig4>>

\* model.run_spiketrain(caller_train), on a ProbSRP object; the sampled return
\* value is kept in out
CallRunSpiketrain ==
    /\ pc \in {"constructed", "called"}
    /\ model.cls = "ProbSRP"
    /\ Len(returns) < MaxCalls
    /\ LET r == ProbSRP_run_spiketrain(model, caller_train)
       IN  /\ \E efficacies \in sample(r.locals.mean, r.locals.sigma, 1) :
                 out' = [efficacies |-> efficacies,
                         efficacytrains |->
                             scatter(efficacies, r.spiketimes, 1, Len(caller_train))]
           /\ returns' = Append(returns, [method |-> "run_spiketrain",
                                          return_all |-> FALSE,
                                          locals |-> r.locals, ret |-> <<>>])
           /\ caller_train' = r.spiketrain
           /\ model' = r.self
    /\ pc' = "called"
    /\ UNCHANGED <<call, model2, err, mom, caller_train0, varsKernel, varsFig8,
                   varsFig4>>

NextCalls == ConstructDetSRP \/ ConstructProbSRP \/ CallRun \/ CallRunSpiketrain

SpecCalls == InitCalls /\ [][NextCalls]_vars

-----------------------------------------------------------------------------
(* Claims checked under SpecCalls *)

\* the calls so far of one method (and, for run, of one return mode)
CallsOf(method) == {i \in 1..Len(returns) : returns[i].method = method}

CompactRuns == {i \in CallsOf("run") : ~returns[i].return_all}

FullRuns == {i \in CallsOf("run") : returns[i].return_all}

\* C13: the pair (efficacy_train, efficacies) returned by DetSRP.run with
\* return_all false equals the efficacy-train and efficacies fields of the
\* mapping returned with return_all true, for the same model and spike train,
\* and the full mapping has exactly the four fields filtered trace, nonlinear
\* readout, efficacy train and efficacies.
C13_ReturnModesAgree ==
    /\ \A j \in FullRuns :
          DOMAIN returns[j].ret =
              {"filtered_spiketrain", "nonlinear_readout", "efficacytrain",
               "efficacies"}
    /\ \A i \in CompactRuns :
          /\ Len(returns[i].ret) = 2
          /\ \A j \in FullRuns :
                /\ returns[i].ret[1] = returns[j].ret.efficacytrain
                /\ returns[i].ret[2] = returns[j].ret.efficacies

\* C13 witness: a compact call and then a full call on a train with a spike
\* and a silent sample, so that the readout is not the efficacy train
C13_Witness ==
    /\ caller_train0 = <<1, 0>>
    /\ \E i \in CompactRuns, j \in FullRuns :
          /\ i < j
          /\ returns[j].ret.nonlinear_readout # returns[j].ret.efficacytrain
          /\ returns[i].ret = <<returns[j].ret.efficacytrain, returns[j].ret.efficacies>>
          /\ Len(returns[i].ret[2]) = 1

\* what the constructor call of the script builds
Constructed ==
    IF call.cls = "DetSRP"
    THEN DetSRP_init(call.kernel, call.baseline, call.nlin, call.dt).model
    ELSE ProbSRP_init(call.kernel, call.baseline, call.sigma_kernel,
                      call.sigma_baseline, call.nlin, call.dt).model

\* C16: DetSRP.run and ProbSRP.run_spiketrain leave the caller's spike train
\* and the model's stored kernels, baselines and timestep unchanged, so any
\* sequence of calls on one model with the same spike train computes the same
\* deterministic outputs (filtered trace, readout, efficacy train for run;
\* mean and sigma values for run_spiketrain) on every call.
C16_CallsLeaveInputsUnchanged ==
    pc = "called" =>
        /\ caller_train = caller_train0
        /\ model = Constructed
        /\ \A i, j \in CallsOf("run") : returns[i].locals = returns[j].locals
        /\ \A i, j \in CallsOf("run_spiketrain") :
              returns[i].locals = returns[j].locals

\* C16 witness: three calls, run and run_spiketrain among them and run twice,
\* on a train that starts with a spike and under a two-entry kernel
C16_Witness ==
    /\ pc = "called"
    /\ Len(returns) = 3
    /\ caller_train0 = <<1, 1>>
    /\ caller_train = <<1, 1>>
    /\ Len(model.mu_kernel) = 2
    /\ returns[1].method = "run"
    /\ returns[2].method = "run_spiketrain"
    /\ returns[3].method = "run"
    /\ returns[1].locals = returns[3].locals
    /\ returns[1].locals.efficacies[1] # returns[1].locals.efficacies[2]

-----------------------------------------------------------------------------
(* scripts/fig8.py: mse, and the specification SpecMse *)

\* most sweeps (rows) of a target matrix
MaxSweeps == 2

\* numbers of stimuli (columns) of a target matrix
StimulusCounts == {1, 2}

\* a target entry: the missing value np.nan ({}), or a measured amplitude
TargetEntries == {{}, {1}, {3}, {4}}

\* an entry of estimate
EstimateEntries == {2, 5}

\* np.isnan
isnan(x) == x = {}

\* (targets - estimate) ** 2 at one entry; the estimate row is broadcast over
\* the sweeps, and a missing target gives a missing difference
SquaredError(tg, est, r, c) ==
    IF isnan(tg[r][c]) THEN {}
    ELSE {(TheValue(tg[r][c]) - est[c]) * (TheValue(tg[r][c]) - est[c])}

RECURSIVE nansum_row(_, _)
\* np.nansum over the first n entries of a row: missing entries count as 0
nansum_row(row, n) ==
    IF n = 0 THEN 0
    ELSE (IF isnan(row[n]) THEN 0 ELSE TheValue(row[n])) + nansum_row(row, n - 1)

RECURSIVE nansum(_, _)
\* np.nansum over the first n rows of a matrix
nansum(mat, n) ==
    IF n = 0 THEN 0 ELSE nansum_row(mat[n], Len(mat[n])) + nansum(mat, n - 1)

\* np.count_nonzero(~np.isnan(targets))
count_not_nan(mat) ==
    Cardinality({rc \in (1..Len(mat)) \X (1..Len(mat[1])) : ~isnan(mat[rc[1]][rc[2]])})

\* a plausible slip: the squared errors are averaged over all entries of targets
mse_over_size(tg, est) ==
    LET sq == [r \in 1..Len(tg) |->
                  [c \in 1..Len(tg[r]) |-> SquaredError(tg, est, r, c)]]
    IN  [num |-> nansum(sq, Len(sq)), den |-> Len(tg) * Len(tg[1])]

\* mse(targets, estimate): the quotient num / den (0 / 0 is not a number)
mse(tg, est) ==
    LET sq == [r \in 1..Len(tg) |->
                  [c \in 1..Len(tg[r]) |-> SquaredError(tg, est, r, c)]]
    IN  [num |-> nansum(sq, Len(sq)), den |-> count_not_nan(tg)]

\* a target matrix of shape [n_sweep, n_stimulus] and an estimate of shape
\* [n_stimulus]
InitMse ==
    /\ pc = "mse"
    /\ \E n \in StimulusCounts :
          /\ targets \in SeqsOf([1..n -> TargetEntries], 1, MaxSweeps)
          /\ estimate \in [1..n -> EstimateEntries]
    /\ loss = [num |-> 0, den |-> 0]
    /\ TrainIdle /\ ScriptIdle /\ EstIdle
    /\ SRPIdle
    /\ KernelIdle
    /\ CallsIdle
    /\ Fig4Idle

\* mse(targets, estimate)
Mse ==
    /\ pc = "mse"
    /\ loss' = mse(targets, estimate)
    /\ pc' = "mse_done"
    /\ UNCHANGED <<targets, estimate, varsTrain, varsScript, varsEst, varsSRP, varsKernel, varsCalls, varsFig4>>

NextMse == Mse

SpecMse == InitMse /\ [][NextMse]_vars

-----------------------------------------------------------------------------
(* Claims checked under SpecMse *)

\* the positions of targets that are not missing
Present == {rc \in (1..Len(targets)) \X (1..Len(estimate)) : targets[rc[1]][rc[2]] # {}}

RECURSIVE SumOver(_)
\* the sum of (target - estimate of that column)^2 over a set of positions
SumOver(S) ==
    IF S = {} THEN 0
    ELSE LET rc == CHOOSE x \in S : TRUE
             d == TheValue(targets[rc[1]][rc[2]]) - estimate[rc[2]]
         IN  d * d + SumOver(S \ {rc})

\* C4: mse(targets, estimate) is the sum over the entries of targets that are
\* not missing of (target - estimate of that column)^2, divided by the number
\* of those entries; missing entries count in neither (targets
\* [[1, missing], [3, 4]] with estimate [2, 5] gives 1).
C4_MseOverPresentEntries ==
    (pc = "mse_done" /\ Present # {}) =>
        /\ loss.num = SumOver(Present)
        /\ loss.den = Cardinality(Present)
        /\ (targets = <<<<{1}, {}>>, <<{3}, {4}>>>> /\ estimate = <<2, 5>>)
              => loss.num = loss.den

\* C4 witness: the example of the specification, whose mse is 3 / 3 = 1
C4_Witness ==
    /\ pc = "mse_done"
    /\ targets = <<<<{1}, {}>>, <<{3}, {4}>>>>
    /\ estimate = <<2, 5>>
    /\ loss = [num |-> 3, den |-> 3]

-----------------------------------------------------------------------------
(* scripts/fig8.py: the protocols, and the specification SpecTrain *)

\* the keys of protocol_names
ProtocolKeys == {"100", "20", "111", "20100", "10100", "10020", "invivo"}

\* test_keys, the four held-out test sets
test_keys == <<"invivo", "100", "20", "20100">>

\* stimulus_dict: the ISI vector of each protocol, in units of 0.1 ms
stimulus_dict ==
    ("20" :> <<0, 500, 500, 500, 500, 500, 500, 500, 500, 500>>)
        @@ ("100" :> <<0, 100, 100, 100, 100, 100, 100, 100, 100, 100>>)
        @@ ("20100" :> <<0, 500, 500, 500, 500, 100>>)
        @@ ("10020" :> <<0, 100, 100, 100, 100, 500>>)
        @@ ("10100" :> <<0, 1000, 1000, 1000, 1000, 100>>)
        @@ ("111" :> <<0, 50, 50, 50, 50, 50>>)
        @@ ("invivo" :> <<0, 60, 909, 125, 256, 90>>)

\* normalized response amplitudes of a data file
AmplitudeVals == {1, 2}

\* a target matrix [n_sweep, n_stimulus] of one protocol: one sweep, every
\* response of amplitude v
TargetMatrix(key, v) == <<[i \in 1..Len(stimulus_dict[key]) |-> {v}]>>

\* a plausible slip: the held-out protocol is not filtered out
get_train_dict_unfiltered(tgs, testkey) == [key \in ProtocolKeys |-> tgs[key]]

\* get_train_dict(targets, test_key)
get_train_dict(tgs, testkey) == [key \in ProtocolKeys \ {testkey} |-> tgs[key]]

\* target_dict as loaded from the data files, and a key to hold out
InitTrain ==
    /\ pc = "train"
    /\ \E v \in [ProtocolKeys -> AmplitudeVals] :
          target_dict = [key \in ProtocolKeys |-> TargetMatrix(key, v[key])]
    /\ test_key \in ProtocolKeys
    /\ train_dict = <<>>
    /\ MseIdle /\ ScriptIdle /\ EstIdle
    /\ SRPIdle
    /\ KernelIdle
    /\ CallsIdle
    /\ Fig4Idle

\* get_train_dict(target_dict, testkey), the call of the hold-out loops
GetTrainDict ==
    /\ pc = "train"
    /\ train_dict' = get_train_dict(target_dict, test_key)
    /\ pc' = "train_done"
    /\ UNCHANGED <<target_dict, test_key, varsMse, varsScript, varsEst, varsSRP, varsKernel, varsCalls, varsFig4>>

NextTrain == GetTrainDict

SpecTrain == InitTrain /\ [][NextTrain]_vars

-----------------------------------------------------------------------------
(* Claims checked under SpecTrain *)

\* C5 as stated: for every held-out key among the seven named protocols,
\* get_train_dict as called by the figure-8 script returns a mapping whose keys
\* are exactly the other six protocols, each mapped to that protocol's
\* unchanged ISI vector.
C5_TrainDictOfISIVectors ==
    pc = "train_done" =>
        /\ DOMAIN train_dict = ProtocolKeys \ {test_key}
        /\ \A key \in DOMAIN train_dict : train_dict[key] = stimulus_dict[key]

\* C5 as amended: for every held-out key among the seven named protocols,
\* get_train_dict as called by the figure-8 script returns a mapping whose keys
\* are exactly the other six protocols, each mapped to that protocol's
\* unchanged entry of target_dict (its response amplitude matrix).
C5_TrainDictOfTargets ==
    pc = "train_done" =>
        /\ DOMAIN train_dict = ProtocolKeys \ {test_key}
        /\ Cardinality(DOMAIN train_dict) = 6
        /\ \A key \in DOMAIN train_dict : train_dict[key] = target_dict[key]

\* C5 witness: the in-vivo protocol held out of a data set whose protocols do
\* not all have the same amplitudes
C5_Witness ==
    /\ pc = "train_done"
    /\ test_key = "invivo"
    /\ DOMAIN train_dict = {"100", "20", "111", "20100", "10100", "10020"}
    /\ train_dict["20"] # train_dict["100"]
    /\ train_dict["20"] = target_dict["20"]

-----------------------------------------------------------------------------
(* srplasticity/tm.py (not part of the sources): the Tsodyks-Markram model *)

\* TsodyksMarkramModel(U, f, tau_u, tau_r): a model with cleared trial state.
\* The carried trial state (utilization, available resource) is a function of
\* the intervals the model has run since it was last cleared, kept as those.
TM_new(cls, params) == [cls |-> cls, params |-> params, carried |-> <<>>]

\* model.run_ISIvec(isivec): the predicted amplitudes, a function of the
\* parameters, the carried trial state and the intervals (kept unevaluated),
\* and the model after the run
TM_run_ISIvec(m, isivec) ==
    [est |-> [params |-> m.params, from |-> m.carried, isivec |-> isivec],
     model |-> [m EXCEPT !.carried = m.carried \o isivec]]

\* model.reset(): clears the carried trial state
TM_reset(m) == [m EXCEPT !.carried = <<>>]

-----------------------------------------------------------------------------
(* scripts/fig8.py: get_model_estimates, and the specification SpecEst *)

\* model parameter tuples (U, f, tau_u, tau_r), scaled to integers
TMParams == {<<2, 3, 10, 100>>}

\* the classes of model that take the loops without ntrials: the
\* TsodyksMarkramModel, and any other model with run_ISIvec(isivec)
ModelClasses == {"TsodyksMarkramModel", "other"}

\* the orders in which stimulus_dict.items() can yield the protocols
KeyOrders ==
    {o \in [1..Cardinality(ProtocolKeys) -> ProtocolKeys] :
        \A i, j \in DOMAIN o : o[i] = o[j] => i = j}

\* a plausible slip: the loop of the Tsodyks-Markram branch without its reset
resets_never(cls) == FALSE

\* the branch of get_model_estimates whose loop calls model.reset()
resets_after_run(cls) == cls = "TsodyksMarkramModel"

\* a freshly built model handed to get_model_estimates with stimulus_dict
InitEst ==
    /\ pc = "est_run"
    /\ \E c \in ModelClasses, p \in TMParams : tm = TM_new(c, p)
    /\ estimates = <<>>
    /\ order \in KeyOrders
    /\ calls = <<>>
    /\ MseIdle /\ TrainIdle /\ ScriptIdle
    /\ SRPIdle
    /\ KernelIdle
    /\ CallsIdle
    /\ Fig4Idle

\* estimates[key] = model.run_ISIvec(isivec), for the next key of the loop
EstRun ==
    /\ pc = "est_run"
    /\ LET key == Head(order)
           r == TM_run_ISIvec(tm, stimulus_dict[key])
       IN  /\ estimates' = [k \in DOMAIN estimates \cup {key} |->
                               IF k = key THEN r.est ELSE estimates[k]]
           /\ tm' = r.model
           /\ calls' = Append(calls, [method |-> "run_ISIvec", key |-> key])
           /\ IF resets_after_run(tm.cls)
              THEN pc' = "est_reset" /\ order' = order
              ELSE /\ order' = Tail(order)
                   /\ pc' = IF Tail(order) = <<>> THEN "est_done" ELSE "est_run"
    /\ UNCHANGED <<varsMse, varsTrain, varsScript, varsSRP, varsKernel, varsCalls, varsFig4>>

\* model.reset(), the second statement of the Tsodyks-Markram loop body
EstReset ==
    /\ pc = "est_reset"
    /\ tm' = TM_reset(tm)
    /\ calls' = Append(calls, [method |-> "reset", key |-> Head(order)])
    /\ order' = Tail(order)
    /\ pc' = IF Tail(order) = <<>> THEN "est_done" ELSE "est_run"
    /\ UNCHANGED <<estimates, varsMse, varsTrain, varsScript, varsSRP, varsKernel, varsCalls, varsFig4>>

NextEst == EstRun \/ EstReset

SpecEst == InitEst /\ [][NextEst]_vars

-----------------------------------------------------------------------------
(* Claims checked under SpecEst *)

\* C7: in get_model_estimates with a Tsodyks-Markram model, reset() is called
\* after every protocol's run_ISIvec and before the next protocol's
\* run_ISIvec, so each protocol's estimate is computed from cleared trial
\* state and the estimates do not depend on the order of the protocols.
C7_ResetBetweenProtocols ==
    tm.cls = "TsodyksMarkramModel" =>
        /\ \A i \in 1..Len(calls) :
              /\ calls[i].method = (IF i % 2 = 1 THEN "run_ISIvec" ELSE "reset")
              /\ (i % 2 = 0) => calls[i].key = calls[i - 1].key
        /\ pc = "est_run" => tm.carried = <<>>
        /\ \A key \in DOMAIN estimates :
              estimates[key] =
                  [params |-> tm.params, from |-> <<>>, isivec |-> stimulus_dict[key]]
        /\ pc = "est_done" =>
              /\ DOMAIN estimates = ProtocolKeys
              /\ Len(calls) = 2 * Cardinality(ProtocolKeys)

\* C7 witness: the loop has finished on a Tsodyks-Markram model, having run
\* the in-vivo protocol first and the 100 Hz protocol last
C7_Witness ==
    /\ pc = "est_done"
    /\ tm.cls = "TsodyksMarkramModel"
    /\ calls[1] = [method |-> "run_ISIvec", key |-> "invivo"]
    /\ calls[Len(calls)] = [method |-> "reset", key |-> "100"]
    /\ estimates["100"].from = <<>>

-----------------------------------------------------------------------------
(* scripts/fig8.py: the script, run after run: the specification SpecFig8 *)

\* versions of the data files under data_dir
MaxData == 2

\* the parameter files under modelfit_dir
FileTM == "chamberland2018_TMmodel.pkl"

FileTMVal == "chamberland2018_TMmodel_validation.pkl"

FileSRP == "chamberland2018_SRPmodel.pkl"

FileSRPVal == "chamberland2018_SRPmodel_validation.pkl"

FileNames == {FileTM, FileTMVal, FileSRP, FileSRPVal}

\* a pickled or assigned object
Obj(v) == [kind |-> "object", value |-> v]

IsAbsent(c) == c.kind = "absent"

\* the held-out keys, as a set
TestKeys == {test_keys[i] : i \in 1..Len(test_keys)}

\* the order in which stimulus_dict.items() yields the protocols
InsertionOrder == <<"20", "100", "20100", "10020", "10100", "111", "invivo">>

\* target_dict as loaded from version d of the data files: every protocol's
\* matrix holds one sweep of amplitude d (no zero entry to recode)
Data(d) == [key \in ProtocolKeys |-> TargetMatrix(key, d)]

\* fit_tm_model / fit_srp_model_gridsearch (srplasticity/tm.py, inference.py,
\* not part of the sources): the best parameters, a function of the model
\* family and of the targets fitted to (the protocols and their amplitudes)
FitParams(family, tgs) ==
    [family |-> family, protocols |-> DOMAIN tgs,
     amplitudes |-> {tgs[key][1][1] : key \in DOMAIN tgs}]

\* the hold-out loop: one fit per test key, on get_train_dict(target_dict, key)
HoldOutFits(family, tgs) ==
    [key \in TestKeys |-> FitParams(family, get_train_dict(tgs, key))]

RECURSIVE EstimatesLoop(_, _, _)
\* get_model_estimates(model, stimulus_dict), the loops over run_ISIvec(isivec)
EstimatesLoop(m, ord, est) ==
    IF ord = <<>> THEN est
    ELSE LET key == Head(ord)
             r == TM_run_ISIvec(m, stimulus_dict[key])
             est1 == [k \in DOMAIN est \cup {key} |-> IF k = key THEN r.est ELSE est[k]]
         IN  EstimatesLoop(IF resets_after_run(m.cls) THEN TM_reset(r.model) ELSE r.model,
                           Tail(ord), est1)

\* the parameter files of a fresh checkout (none), or files of an earlier fit
\* of both families to version 1 of the data
ShippedFiles ==
    (FileTM :> Obj(FitParams("TM", Data(1))))
        @@ (FileTMVal :> Obj(HoldOutFits("TM", Data(1))))
        @@ (FileSRP :> Obj(FitParams("SRP", Data(1))))
        @@ (FileSRPVal :> Obj(HoldOutFits("SRP", Data(1))))

InitFig8 ==
    /\ pc = "idle"
    /\ files \in {[f \in FileNames |-> Absent], ShippedFiles}
    /\ start_files = files
    /\ fitting_tm = FALSE
    /\ fitting_srp = FALSE
    /\ tm_params = Absent
    /\ tm_testparams = Absent
    /\ srp_params = Absent
    /\ srp_testparams = Absent
    /\ fitted = {}
    /\ lastrun = NoRun
    /\ target_dict = <<>>
    /\ test_key = ""
    /\ train_dict = <<>>
    /\ MseIdle /\ EstIdle
    /\ SRPIdle
    /\ KernelIdle
    /\ CallsIdle
    /\ Fig4Idle

\* python fig8.py, with the two switches as edited: a new process, whose
\* variables are unassigned; the run before it is over
StartRun ==
    /\ pc \in {"idle", "done", "aborted_tm", "aborted_srp"}
    /\ fitting_tm' \in BOOLEAN
    /\ fitting_srp' \in BOOLEAN
    /\ lastrun' = IF pc = "idle" THEN NoRun
                  ELSE [fitted |-> fitted, tm_params |-> tm_params,
                        tm_testparams |-> tm_testparams, srp_params |-> srp_params,
                        srp_testparams |-> srp_testparams]
    /\ start_files' = files
    /\ tm_params' = Absent
    /\ tm_testparams' = Absent
    /\ srp_params' = Absent
    /\ srp_testparams' = Absent
    /\ fitted' = {}
    /\ target_dict' = <<>>
    /\ estimates' = <<>>
    /\ pc' = "load_data"
    /\ UNCHANGED <<files, test_key, train_dict, tm, order, calls, varsMse, varsSRP, varsKernel, varsCalls, varsFig4>>

\* lines 158-165: target_dict from the data files
LoadData ==
    /\ pc = "load_data"
    /\ \E d \in 1..MaxData : target_dict' = Data(d)
    /\ pc' = "tm"
    /\ UNCHANGED <<test_key, train_dict, varsScript, varsEst, varsMse, varsSRP, varsKernel, varsCalls, varsFig4>>

\* lines 173-196: the joint TM fit, saved
FitTM ==
    /\ pc = "tm"
    /\ fitting_tm
    /\ tm_params' = Obj(FitParams("TM", target_dict))
    /\ files' = [files EXCEPT ![FileTM] = tm_params']
    /\ pc' = "tm_holdout"
    /\ UNCHANGED <<start_files, fitting_tm, fitting_srp, tm_testparams, srp_params,
                   srp_testparams, fitted, lastrun, varsTrain, varsEst, varsMse,
                   varsSRP, varsKernel, varsCalls, varsFig4>>

\* lines 198-214: the TM hold-out fits, saved
HoldOutTM ==
    /\ pc = "tm_holdout"
    /\ tm_testparams' = Obj(HoldOutFits("TM", target_dict))
    /\ files' = [files EXCEPT ![FileTMVal] = tm_testparams']
    /\ fitted' = fitted \cup {"tm"}
    /\ pc' = "srp"
    /\ UNCHANGED <<start_files, fitting_tm, fitting_srp, tm_params, srp_params,
                   srp_testparams, lastrun, varsTrain, varsEst, varsMse,
                   varsSRP, varsKernel, varsCalls, varsFig4>>

\* lines 216-219: the TM parameters loaded; a missing file ends the run
LoadTM ==
    /\ pc = "tm"
    /\ ~fitting_tm
    /\ IF IsAbsent(files[FileTM])
       THEN pc' = "aborted_tm" /\ UNCHANGED <<tm_params, tm_testparams>>
       ELSE /\ tm_params' = files[FileTM]
            /\ IF IsAbsent(files[FileTMVal])
               THEN pc' = "aborted_tm" /\ UNCHANGED tm_testparams
               ELSE pc' = "srp" /\ tm_testparams' = files[FileTMVal]
    /\ UNCHANGED <<files, start_files, fitting_tm, fitting_srp, srp_params,
                   srp_testparams, fitted, lastrun, varsTrain, varsEst, varsMse,
                   varsSRP, varsKernel, varsCalls, varsFig4>>

\* lines 227-262: the joint SRP fit, saved
FitSRP ==
    /\ pc = "srp"
    /\ fitting_srp
    /\ srp_params' = Obj(FitParams("SRP", target_dict))
    /\ files' = [files EXCEPT ![FileSRP] = srp_params']
    /\ pc' = "srp_holdout"
    /\ UNCHANGED <<start_files, fitting_tm, fitting_srp, tm_params, tm_testparams,
                   srp_testparams, fitted, lastrun, varsTrain, varsEst, varsMse,
                   varsSRP, varsKernel, varsCalls, varsFig4>>

\* lines 264-285: the SRP hold-out fits, saved under the name of line 285
HoldOutSRP ==
    /\ pc = "srp_holdout"
    /\ srp_testparams' = Obj(HoldOutFits("SRP", target_dict))
    /\ files' = [files EXCEPT ![FileTMVal] = srp_testparams']
    /\ fitted' = fitted \cup {"srp"}
    /\ pc' = "estimates"
    /\ UNCHANGED <<start_files, fitting_tm, fitting_srp, tm_params, tm_testparams,
                   srp_params, lastrun, varsTrain, varsEst, varsMse,
                   varsSRP, varsKernel, varsCalls, varsFig4>>

\* lines 287-290: the SRP parameters loaded; a missing file ends the run
LoadSRP ==
    /\ pc = "srp"
    /\ ~fitting_srp
    /\ IF IsAbsent(files[FileSRP])
       THEN pc' = "aborted_srp" /\ UNCHANGED <<srp_params, srp_testparams>>
       ELSE /\ srp_params' = files[FileSRP]
            /\ IF IsAbsent(files[FileSRPVal])
               THEN pc' = "aborted_srp" /\ UNCHANGED srp_testparams
               ELSE pc' = "estimates" /\ srp_testparams' = files[FileSRPVal]
    /\ UNCHANGED <<files, start_files, fitting_tm, fitting_srp, tm_params,
                   tm_testparams, fitted, lastrun, varsTrain, varsEst, varsMse,
                   varsSRP, varsKernel, varsCalls, varsFig4>>

\* lines 299-304: the estimates of the joint fits (tm_est is kept; the SRP
\* estimates and the losses are values of models outside the sources)
Finish ==
    /\ pc = "estimates"
    /\ estimates' = EstimatesLoop(TM_new("TsodyksMarkramModel", tm_params.value),
                                  InsertionOrder, <<>>)
    /\ pc' = "done"
    /\ UNCHANGED <<tm, order, calls, varsScript, varsTrain, varsMse, varsSRP, varsKernel, varsCalls, varsFig4>>

NextFig8 ==
    \/ StartRun
    \/ LoadData
    \/ FitTM
    \/ HoldOutTM
    \/ LoadTM
    \/ FitSRP
    \/ HoldOutSRP
    \/ LoadSRP
    \/ Finish

SpecFig8 == InitFig8 /\ [][NextFig8]_vars

-----------------------------------------------------------------------------
(* Claims checked under SpecFig8 *)

\* two script values or file contents are the same object
Same(a, b) == a.kind = b.kind /\ (a.kind = "object" => a.value = b.value)

\* C6: fit results round-trip through the parameter files: after a run that
\* fits a model family (TM or SRP), a following run with that family's switch
\* set to load reads back exactly the joint-fit parameters and the
\* cross-validation parameter mapping the fitting run produced for that
\* family, for every combination of the two switches in the fitting run.
C6_FitResultsRoundTrip ==
    /\ ("tm" \in lastrun.fitted /\ ~fitting_tm
          /\ pc \in {"srp", "srp_holdout", "estimates", "done",
                     "aborted_tm", "aborted_srp"})
          => /\ Same(tm_params, lastrun.tm_params)
             /\ Same(tm_testparams, lastrun.tm_testparams)
    /\ ("srp" \in lastrun.fitted /\ ~fitting_srp
          /\ pc \in {"estimates", "done", "aborted_srp"})
          => /\ Same(srp_params, lastrun.srp_params)
             /\ Same(srp_testparams, lastrun.srp_testparams)

\* the file f holds what it held when the run started
Untouched(f) == Same(files[f], start_files[f])

\* C15: the two switches are independent with respect to persisted files: a
\* run with the TM switch set to load leaves both TM parameter files (joint
\* fit and validation) with unchanged content, whatever the SRP switch is, and
\* a run with the SRP switch set to load leaves both SRP parameter files
\* unchanged, whatever the TM switch is.
C15_SwitchesIndependent ==
    pc # "idle" =>
        /\ ~fitting_tm => Untouched(FileTM) /\ Untouched(FileTMVal)
        /\ ~fitting_srp => Untouched(FileSRP) /\ Untouched(FileSRPVal)

-----------------------------------------------------------------------------
(* Scripts/fig4.py: the delay sweep, and the specification SpecFig4 *)
(* Sample indices are Python's (from 0); a spike train of 10^6 samples is  *)
(* kept as the set of its spike indices, and an array computed from it as  *)
(* a function of the index.                                                *)

\* the offset of the test spike: train[[12000 + testspike]] = 1
TestSpikeOffset == 12000

\* the end of the burst window: res[:12000]
BurstWindow == 12000

\* the offset of the sample read as test efficacy: res[12001 + testspike]
TestReadOffset == 12001

\* np.arange(start, stop, step)
arange_step(start, stop, step) ==
    [i \in 1..((stop - start + step - 1) \div step) |-> start + (i - 1) * step]

\* the delays of the sweep
Trange == arange_step(1500, 125000, 5000)

\* the burst-only train spktr
spktr == {4000, 5000, 6000, 7000, 8000, 9000, 10000, 11000}

\* mus and sigmas of the three kernel components, in samples (ms / dt)
KernelMus == <<15000, 25000, 60000>>

KernelSigmas == <<5000, 12000, 30000>>

\* gaussian_kernel (LNLmodel.py, not part of the sources) at a lag: every
\* component is a bump around its mu that reaches three sigmas to either
\* side; the bump is piecewise linear here
KernelAt(lag) ==
    LET d(k) == IF lag > KernelMus[k] THEN lag - KernelMus[k] ELSE KernelMus[k] - lag
        w(k) == 3 * KernelSigmas[k]
        bump == [k \in 1..3 |-> IF d(k) < w(k) THEN w(k) - d(k) ELSE 0]
    IN  SumFn(bump, 3)

RECURSIVE KernelSum(_, _)
\* the kernel summed over the spikes before sample n (causal, one step late)
KernelSum(spikes, n) ==
    IF spikes = {} THEN 0
    ELSE LET s == CHOOSE x \in spikes : TRUE
         IN  (IF s < n THEN KernelAt(n - s - 1) ELSE 0) + KernelSum(spikes \ {s}, n)

\* det_gaussian(...).run(spikes)['nl_readout'][n] (LNLmodel.py, not part of
\* the sources): the sigmoid of baseline + filtered train.  The sigmoid is
\* strictly increasing, so a readout is kept as its argument, in tenths
nl_readout(spikes, n) == 10 * KernelSum(spikes, n) - 15

RECURSIVE max_between(_, _, _)
\* the largest readout among the samples lo..hi
max_between(spikes, lo, hi) ==
    IF lo = hi THEN nl_readout(spikes, lo)
    ELSE LET mid == (lo + hi) \div 2
             left == max_between(spikes, lo, mid)
             right == max_between(spikes, mid + 1, hi)
         IN  IF left > right THEN left ELSE right

\* res[:stop].max()
max_upto(spikes, stop) == max_between(spikes, 0, stop - 1)

\* np.where(Trange == ts)[0], from 1
IndexOf(ts) == CHOOSE i \in DOMAIN Trange : Trange[i] = ts

InitFig4 ==
    /\ pc = "sweep"
    /\ train = {}
    /\ testspike = 0
    /\ res = {}
    /\ uctl = 0
    /\ burstmax = 0
    /\ ulate = 0
    /\ ratio = [i \in DOMAIN Trange |-> <<0, 1>>]
    /\ ratio_burstmax = [i \in DOMAIN Trange |-> <<0, 1>>]
    /\ SRPIdle
    /\ KernelIdle
    /\ Fig8Idle
    /\ CallsIdle

\* lines 86-88: the next delay, and its train: the burst and the test spike
PlaceTestSpike ==
    /\ pc \in {"sweep", "stored"}
    /\ \E i \in DOMAIN Trange :
          /\ i = (IF pc = "sweep" THEN 1 ELSE IndexOf(testspike) + 1)
          /\ testspike' = Trange[i]
          /\ train' = spktr \cup {TestSpikeOffset + Trange[i]}
    /\ pc' = "placed"
    /\ UNCHANGED <<res, uctl, burstmax, ulate, ratio, ratio_burstmax,
                   varsSRP, varsKernel, varsFig8, varsCalls>>

\* line 89: res = lateSTF.run(train)['nl_readout']
RunSweepTrain ==
    /\ pc = "placed"
    /\ res' = train
    /\ pc' = "simulated"
    /\ UNCHANGED <<train, testspike, uctl, burstmax, ulate, ratio, ratio_burstmax,
                   varsSRP, varsKernel, varsFig8, varsCalls>>

\* line 91: uctl = res[0]
ReadControl ==
    /\ pc = "simulated"
    /\ uctl' = nl_readout(res, 0)
    /\ pc' = "control"
    /\ UNCHANGED <<train, testspike, res, burstmax, ulate, ratio, ratio_burstmax,
                   varsSRP, varsKernel, varsFig8, varsCalls>>

\* line 92: burstmax = res[:12000].max()
ReadBurstMax ==
    /\ pc = "control"
    /\ burstmax' = max_upto(res, BurstWindow)
    /\ pc' = "burst"
    /\ UNCHANGED <<train, testspike, res, uctl, ulate, ratio, ratio_burstmax,
                   varsSRP, varsKernel, varsFig8, varsCalls>>

\* line 93: ulate = res[12001 + testspike]
ReadTest ==
    /\ pc = "burst"
    /\ ulate' = nl_readout(res, TestReadOffset + testspike)
    /\ pc' = "test"
    /\ UNCHANGED <<train, testspike, res, uctl, burstmax, ratio, ratio_burstmax,
                   varsSRP, varsKernel, varsFig8, varsCalls>>

\* lines 94-95: the two ratios of this delay, as (numerator, denominator)
StoreRatios ==
    /\ pc = "test"
    /\ ratio' = [ratio EXCEPT ![IndexOf(testspike)] = <<ulate, uctl>>]
    /\ ratio_burstmax' =
          [ratio_burstmax EXCEPT ![IndexOf(testspike)] = <<ulate, burstmax>>]
    /\ pc' = "stored"
    /\ UNCHANGED <<train, testspike, res, uctl, burstmax, ulate,
                   varsSRP, varsKernel, varsFig8, varsCalls>>

NextFig4 ==
    \/ PlaceTestSpike
    \/ RunSweepTrain
    \/ ReadControl
    \/ ReadBurstMax
    \/ ReadTest
    \/ StoreRatios

SpecFig4 == InitFig4 /\ [][NextFig4]_vars

-----------------------------------------------------------------------------
(* Claims checked under SpecFig4 *)

\* C14: in the delay sweep, for each of the 25 delays the test efficacy is the
\* nonlinear readout taken at the same sample index where the test spike was
\* placed (12000 + delay), the control is the readout at sample 0, and the
\* burst maximum is the maximum readout over samples 0..11999.
C14_TestEfficacyAtTestSpike ==
    /\ Len(Trange) = 25
    /\ pc \in {"test", "stored"} =>
          /\ TestSpikeOffset + testspike \in train
          /\ uctl = nl_readout(train, 0)
          /\ burstmax = max_upto(train, 12000)
          /\ ulate = nl_readout(train, TestSpikeOffset + testspike)

=============================================================================
